---------------------------- MODULE Spec2Model ----------------------------
(***************************************************************************)
(* A model of the sum pooling layer of the LRP toolbox,                    *)
(* python/mxmodules/sumpool.py (class SumPool).                            *)
(*                                                                         *)
(* One SumPool instance is a state machine: the constructor fixes pool and *)
(* stride, forward caches its argument and its result in self.X / self.Y,  *)
(* backward and the LRP strategies read self.X, clean sets both to None.   *)
(*                                                                         *)
(* Arithmetic is exact.  Input arrays hold integers.  The two kinds of     *)
(* non-integer number the code produces are kept in closed form:           *)
(*   - a multiple of normalizer = 1/sqrt(hpool*wpool) is the record        *)
(*     [num, rad], standing for num / sqrt(rad);                           *)
(*   - a quotient by a stabilised window sum is the term                   *)
(*     [num, den, sgn, stab], standing for num / (den + sgn * stab), and   *)
(*     an accumulated relevance is the sequence of the terms added to it,  *)
(*     in the order the code adds them.                                    *)
(* Floating point rounding is not modelled.  The integer division of the   *)
(* output size is Python 2's (the code passes its result to range()), i.e. *)
(* the floor, which \div is.                                               *)
(***************************************************************************)
EXTENDS Integers, Sequences, FiniteSets, TLC

\* ------------------------------------------------------------------ bounds
MaxPool   == 2      \* pool height and width range over 1..MaxPool
MaxStride == 2      \* stride height and width range over 1..MaxStride
MaxCells  == 4      \* an arbitrary input array has at most MaxCells cells
MaxDim    == 4      \* a constant input array has H, W <= MaxDim (N = D = 1)

BatchDepth == {<<1, 1>>, <<2, 1>>, <<1, 2>>}   \* the (N, D) of a small input array
Alphas == {0, 1, 2}    \* the alpha of _alphabeta_lrp (beta = 1 - alpha)
Epsilons == {1}        \* the epsilon of _epsilon_lrp

\* Python's None: an absent cache entry, an absent argument, no return value.
None == [none |-> TRUE]

\* pool, stride: the constructor's arguments.  feed: the arrays the caller passes
\* to forward in this run.  X, Y: the cache self.X, self.Y.  op: the last call,
\* arg its array argument, par its scalar argument (alpha, epsilon), ret what it
\* returned: an array, None, or the error it raised.
VARIABLES pool, stride, feed, X, Y, op, arg, par, ret
vars == <<pool, stride, feed, X, Y, op, arg, par, ret>>

\* ------------------------------------------------------------------ arrays
\* A 4-d array: its shape (N,H,W,D) and its cells, a function of the index
\* <<n,h,w,d>>, which counts from 0 as in the code.
Cells(s) == s[1] * s[2] * s[3] * s[4]

Idx(s) == (0..(s[1]-1)) \X (0..(s[2]-1)) \X (0..(s[3]-1)) \X (0..(s[4]-1))

\* The place of cell ix in the row-major order, from 0.
Rank(s, ix) == ((ix[1] * s[2] + ix[2]) * s[3] + ix[3]) * s[4] + ix[4]

\* A[n,h,w,d]
At(A, ix) == A.data[ix]

RECURSIVE SumTo(_, _, _)
\* f[lo] + ... + f[hi]
SumTo(f, lo, hi) == IF lo > hi THEN 0 ELSE f[lo] + SumTo(f, lo + 1, hi)

\* A variant of OutDim that forgets the last window.
OutDimShort(H, p, s) == (H - p) \div s

\* A variant of OutDim that rounds the quotient up.
OutDimCeil(H, p, s) == ((H - p + s - 1) \div s) + 1

\* Hout = (H - hpool) / hstride + 1 on Python 2 integers.
OutDim(H, p, s) == ((H - p) \div s) + 1

OutShape(s, pl, st) ==
    <<s[1], OutDim(s[2], pl[1], st[1]), OutDim(s[3], pl[2], st[2]), s[4]>>

\* The slice i*stride : i*stride+pool of an axis of length H: its first and last
\* index (a slice stops at the end of the axis).
SliceLo(i, s) == i * s
SliceHi(i, p, s, H) == (IF i * s + p < H THEN i * s + p ELSE H) - 1

\* The window [:, i*hstride:i*hstride+hpool, j*wstride:j*wstride+wpool, :] of an
\* array of shape s: its first and last row and column.
WindowOf(s, pl, st, ij) ==
    [hlo |-> SliceLo(ij[1], st[1]), hhi |-> SliceHi(ij[1], pl[1], st[1], s[2]),
     wlo |-> SliceLo(ij[2], st[2]), whi |-> SliceHi(ij[2], pl[2], st[2], s[3])]

\* The cells of window win, of every batch and channel.
WindowCells(s, win) ==
    (0..(s[1]-1)) \X (win.hlo..win.hhi) \X (win.wlo..win.whi) \X (0..(s[4]-1))

\* Whether cell ix lies in window win.
InWindow(ix, win) ==
    /\ win.hlo <= ix[2] /\ ix[2] <= win.hhi
    /\ win.wlo <= ix[3] /\ ix[3] <= win.whi

\* Z * (Z > 0) and Z * (Z < 0), per cell.
Pos(z) == IF z > 0 THEN z ELSE 0
Neg(z) == IF z < 0 THEN z ELSE 0

\* The part of a cell that a sum takes: all of it ("Z"), Zp ("Zp") or Zn ("Zn").
Part(sel, z) == CASE sel = "Z" -> z [] sel = "Zp" -> Pos(z) [] sel = "Zn" -> Neg(z)

\* A[n, i*hstride:i*hstride+hpool, j*wstride:j*wstride+wpool, d].sum() of part sel.
SliceSum(A, pl, st, n, ij, d, sel) ==
    LET win == WindowOf(A.shape, pl, st, ij)
    IN  SumTo([h \in win.hlo..win.hhi |->
                 SumTo([w \in win.wlo..win.whi |-> Part(sel, At(A, <<n, h, w, d>>))],
                       win.wlo, win.whi)],
              win.hlo, win.hhi)

\* A[:, window(i,j), :].sum(axis=(1,2)) of part sel: one sum per batch n and channel d.
WindowSums(A, pl, st, ij, sel) ==
    [nd \in (0..(A.shape[1]-1)) \X (0..(A.shape[4]-1)) |->
        SliceSum(A, pl, st, nd[1], ij, nd[2], sel)]

\* The place in WindowSums of cell ix's batch and channel.
SumOf(s, ix) == <<ix[1], ix[4]>>

\* The windows (i,j) in the order of the loops: for i in range(Hout): for j in range(Wout).
LoopOrder(Hout, Wout) ==
    [k \in 1..(Hout * Wout) |-> <<(k-1) \div Wout, (k-1) % Wout>>]

\* ------------------------------------------------------- scaled numbers
\* A variant of Normalizer that averages: 1. / (hpool*wpool).
NormalizerMean(pl) == [num |-> 1, rad |-> (pl[1] * pl[2]) * (pl[1] * pl[2])]

\* normalizer = 1. / ((hpool*wpool)**.5), kept as 1/sqrt(rad).
Normalizer(pl) == [num |-> 1, rad |-> pl[1] * pl[2]]

\* v * normalizer for an integer v.
TimesNormalizer(v, nz) == [num |-> v * nz.num, rad |-> nz.rad]

SZero == [num |-> 0, rad |-> 1]

\* u + v for two multiples of the same normalizer (0 is a multiple of any).
SAdd(u, v) ==
    IF u.num = 0 THEN v
    ELSE IF v.num = 0 THEN u
    ELSE [num |-> u.num + v.num, rad |-> u.rad]

Sgn(a) == IF a > 0 THEN 1 ELSE IF a < 0 THEN -1 ELSE 0

\* u = v as real numbers: num/sqrt(rad) on both sides.
SEq(u, v) ==
    /\ Sgn(u.num) = Sgn(v.num)
    /\ u.num * u.num * v.rad = v.num * v.num * u.rad

\* ---------------------------------------------------------------- forward
\* self.Y[:,i,j,:] = X[:, window(i,j), :].sum(axis=(1,2)) * normalizer, for every
\* i in range(Hout), j in range(Wout).
ForwardY(Xin, pl, st) ==
    LET os == OutShape(Xin.shape, pl, st)
        nz == Normalizer(pl)
    IN  [shape |-> os,
         data  |-> [o \in Idx(os) |->
                      TimesNormalizer(
                          SliceSum(Xin, pl, st, o[1], <<o[2], o[3]>>, o[4], "Z"),
                          nz)]]

\* --------------------------------------------------------------- backward
\* DY[:, i:i+1, j:j+1, :] broadcast to cell ix.
ROf(R, ij, ix) == At(R, <<ix[1], ij[1], ij[2], ix[4]>>)

\* A variant of BackwardStep that assigns (=) where the code accumulates (+=).
BackwardStepAssign(DX, s, pl, st, DY, ij) ==
    LET win == WindowOf(s, pl, st, ij)
        nz  == Normalizer(pl)
    IN  [ix \in WindowCells(s, win) |-> TimesNormalizer(ROf(DY, ij, ix), nz)] @@ DX

\* DX[:, window(i,j), :] += DY[:, i:i+1, j:j+1, :] * normalizer
BackwardStep(DX, s, pl, st, DY, ij) ==
    LET win == WindowOf(s, pl, st, ij)
        nz  == Normalizer(pl)
    IN  [ix \in WindowCells(s, win) |->
            SAdd(DX[ix], TimesNormalizer(ROf(DY, ij, ix), nz))] @@ DX

RECURSIVE BackwardLoop(_, _, _, _, _, _, _)
BackwardLoop(DX, s, pl, st, DY, order, k) ==
    IF k > Len(order) THEN DX
    ELSE BackwardLoop(BackwardStep(DX, s, pl, st, DY, order[k]),
                      s, pl, st, DY, order, k + 1)

\* SumPool.backward on the cached input Xc: DX = zeros_like(self.X), then the loops.
BackwardDX(Xc, pl, st, DY) ==
    LET s  == Xc.shape
        os == OutShape(s, pl, st)
    IN  [shape |-> s,
         data  |-> BackwardLoop([ix \in Idx(s) |-> SZero], s, pl, st, DY,
                                LoopOrder(os[2], os[3]), 1)]

\* ------------------------------------------------------------------- LRP
\* A relevance cell is the sequence of the terms the loops add to it.  The term
\* [num, den, sgn, stab] stands for num / (den + sgn * stab), where stab names the
\* stabilizer constant ("1e-12", "1e-16") or is "none" (then sgn = 0).
Term(num, den, sgn, stab) == [num |-> num, den |-> den, sgn |-> sgn, stab |-> stab]

\* (Zs >= 0)*2-1
SignOf(Zs) == IF Zs >= 0 THEN 1 ELSE -1

\* A variant of SimpleTerms that stabilizes every Zs upwards, whatever its sign.
SimpleTermsUp(Xc, pl, st, R, ij) ==
    LET s  == Xc.shape
        Zs == WindowSums(Xc, pl, st, ij, "Z")
    IN  [ix \in Idx(s) |->
                <<Term(Xc.data[ix] * ROf(R, ij, ix), Zs[SumOf(s, ix)], 1, "1e-12")>>]

\* _simple_lrp's loop body: Z = self.X[window]; Zs = Z.sum(axis=(1,2));
\* Zs += 1e-12*((Zs >= 0)*2-1); the terms (Z/Zs) * R of the window's cells.
SimpleTerms(Xc, pl, st, R, ij) ==
    LET s  == Xc.shape
        Zs == WindowSums(Xc, pl, st, ij, "Z")
    IN  [ix \in Idx(s) |->
                <<Term(Xc.data[ix] * ROf(R, ij, ix),
                       Zs[SumOf(s, ix)], SignOf(Zs[SumOf(s, ix)]), "1e-12")>>]

\* A variant of FlatTerms that divides by hpool + wpool.
FlatTermsPerimeter(Xc, pl, st, R, ij) ==
    [ix \in Idx(Xc.shape) |-> <<Term(1 * ROf(R, ij, ix), pl[1] + pl[2], 0, "none")>>]

\* _flat_lrp's loop body: Z = ones([N,hpool,wpool,D]); Zs = Z.sum(axis=(1,2));
\* the terms (Z/Zs) * R.
FlatTerms(Xc, pl, st, R, ij) ==
    LET s == Xc.shape
    IN  [ix \in Idx(s) |->
            <<Term(1 * ROf(R, ij, ix), pl[1] * pl[2], 0, "none")>>]

\* _epsilon_lrp's loop body: as _simple_lrp's, with Zs += epsilon*((Zs >= 0)*2-1),
\* epsilon an integer here.
EpsilonTerms(Xc, pl, st, R, epsilon, ij) ==
    LET s  == Xc.shape
        Zs == WindowSums(Xc, pl, st, ij, "Z")
    IN  [ix \in Idx(s) |->
                <<Term(Xc.data[ix] * ROf(R, ij, ix),
                       Zs[SumOf(s, ix)] + epsilon * SignOf(Zs[SumOf(s, ix)]),
                       0, "none")>>]

\* Zp = Z * (Z > 0); Zsp = Zp.sum(axis=(1,2)) + 1e-16; Ralpha = (Zp/Zsp) * R
RalphaTerms(Xc, pl, st, R, ij) ==
    LET s   == Xc.shape
        Zsp == WindowSums(Xc, pl, st, ij, "Zp")
    IN  [ix \in Idx(s) |->
                <<Term(Pos(Xc.data[ix]) * ROf(R, ij, ix), Zsp[SumOf(s, ix)], 1, "1e-16")>>]

\* Zn = Z * (Z < 0); Zsn = Zn.sum(axis=(1,2)) - 1e-16; Rbeta = (Zn/Zsn) * R
RbetaTerms(Xc, pl, st, R, ij) ==
    LET s   == Xc.shape
        Zsn == WindowSums(Xc, pl, st, ij, "Zn")
    IN  [ix \in Idx(s) |->
                <<Term(Neg(Xc.data[ix]) * ROf(R, ij, ix), Zsn[SumOf(s, ix)], -1, "1e-16")>>]

\* The scalar 0 an elided term is set to: it adds nothing.
NoTerms(s) == [ix \in Idx(s) |-> <<>>]

\* A variant of AlphaBetaTerms that computes both terms whatever alpha is.
AlphaBetaTermsBoth(Xc, pl, st, R, alpha, ij) ==
    LET Ralpha == RalphaTerms(Xc, pl, st, R, ij)
        Rbeta  == RbetaTerms(Xc, pl, st, R, ij)
    IN  [ix \in Idx(Xc.shape) |-> Ralpha[ix] \o Rbeta[ix]]

\* _alphabeta_lrp's loop body: Ralpha + Rbeta, with beta = 1 - alpha, Ralpha = 0 when
\* alpha == 0 and Rbeta = 0 when beta == 0.
AlphaBetaTerms(Xc, pl, st, R, alpha, ij) ==
    LET beta   == 1 - alpha
        Ralpha == IF ~(alpha = 0) THEN RalphaTerms(Xc, pl, st, R, ij) ELSE NoTerms(Xc.shape)
        Rbeta  == IF ~(beta = 0) THEN RbetaTerms(Xc, pl, st, R, ij) ELSE NoTerms(Xc.shape)
    IN  [ix \in Idx(Xc.shape) |-> Ralpha[ix] \o Rbeta[ix]]

\* The loop body of a strategy at window ij.
StrategyTerms(kind, Xc, pl, st, R, p, ij) ==
    CASE kind = "simple"    -> SimpleTerms(Xc, pl, st, R, ij)
      [] kind = "flat"      -> FlatTerms(Xc, pl, st, R, ij)
      [] kind = "epsilon"   -> EpsilonTerms(Xc, pl, st, R, p, ij)
      [] kind = "alphabeta" -> AlphaBetaTerms(Xc, pl, st, R, p, ij)

\* Rx[:, window(i,j), :] += the strategy's terms
LrpStep(Rx, kind, Xc, pl, st, R, p, ij) ==
    LET s   == Xc.shape
        win == WindowOf(s, pl, st, ij)
        T   == StrategyTerms(kind, Xc, pl, st, R, p, ij)
    IN  [ix \in WindowCells(s, win) |-> Rx[ix] \o T[ix]] @@ Rx

RECURSIVE LrpLoop(_, _, _, _, _, _, _, _, _)
LrpLoop(Rx, kind, Xc, pl, st, R, p, order, k) ==
    IF k > Len(order) THEN Rx
    ELSE LrpLoop(LrpStep(Rx, kind, Xc, pl, st, R, p, order[k]),
                 kind, Xc, pl, st, R, p, order, k + 1)

\* The Rx a strategy returns on the cached input Xc: zeros, then the loops.
LrpRx(kind, Xc, pl, st, R, p) ==
    LET s  == Xc.shape
        os == OutShape(s, pl, st)
    IN  [shape |-> s,
         data  |-> LrpLoop([ix \in Idx(s) |-> <<>>], kind, Xc, pl, st, R, p,
                           LoopOrder(os[2], os[3]), 1)]

\* ------------------------------------------------------------------ inputs
Pools   == (1..MaxPool) \X (1..MaxPool)
Strides == (1..MaxStride) \X (1..MaxStride)

ConstArray(s, v) == [shape |-> s, data |-> [ix \in Idx(s) |-> v]]

\* The cells run through -1, 0, 1, -1, ... in row-major order, from the c-th on.
CycleArray(s, c) ==
    [shape |-> s, data |-> [ix \in Idx(s) |-> ((Rank(s, ix) + c) % 3) - 1]]

\* The shapes forward is given: at least one pooling window fits.
SmallShapes(pl) ==
    {s \in {<<nd[1], h, w, nd[2]>> : nd \in BatchDepth, h \in 1..MaxCells, w \in 1..MaxCells} :
        /\ Cells(s) <= MaxCells /\ s[2] >= pl[1] /\ s[3] >= pl[2]}

\* The arrays forward is given: of every small shape the constant arrays 0 and 1
\* and the three cyclic ones (zero windows, cancelling windows, mixed signs), and
\* the square array of ones of side MaxDim when the windows do not overlap
\* (stride = pool) or the stride is 1.
Inputs(pl, st) ==
    {ConstArray(s, v) : s \in SmallShapes(pl), v \in {0, 1}}
    \cup {CycleArray(s, c) : s \in SmallShapes(pl), c \in 0..2}
    \cup {ConstArray(s, 1) : s \in {q \in {<<1, MaxDim, MaxDim, 1>>} :
                                         /\ q[2] >= pl[1] /\ q[3] >= pl[2]
                                         /\ st \in {pl, <<1, 1>>}}}

\* The arrays forward is given in a run of few inputs.
FewInputs(pl) ==
    {ConstArray(<<1, pl[1], pl[2], 1>>, 1),
     CycleArray(<<1, pl[1] + 1, pl[2], 1>>, 0),
     CycleArray(<<1, pl[1], pl[2] + 2, 1>>, 1)}

\* Every cell a different positive value.
Ramp(s) == [shape |-> s, data |-> [ix \in Idx(s) |-> 1 + Rank(s, ix)]]

\* The DY / R arrays of shape s: all ones, and all cells different.
Upstream(s) == {ConstArray(s, 1), Ramp(s)}

\* ------------------------------------------------------------------- state
AttributeError == [raised |-> "AttributeError"]

\* An attribute __init__ does not assign: self.X and self.Y until forward runs.
Unset == [unset |-> TRUE]

\* Whether v is an array (not None, not unset, not an error).
IsArray(v) == "shape" \in DOMAIN v

\* __init__ stores ctx, pool, stride and dtype, and nothing in self.X or self.Y.
Constructed ==
    /\ pool \in Pools
    /\ stride \in Strides
    /\ X = Unset
    /\ Y = Unset
    /\ op = "init"
    /\ arg = None
    /\ par = None
    /\ ret = None

\* A run on one input, any of Inputs.
Init == Constructed /\ feed \in {{x} : x \in Inputs(pool, stride)}

\* A run that alternates between a few inputs of different shapes.
InitFew == Constructed /\ feed = FewInputs(pool)

\* forward(Xin): self.X = X, self.Y = the pooled output, return self.Y.
ForwardCall(Xin, pl, st) ==
    LET out == ForwardY(Xin, pl, st) IN [X |-> Xin, Y |-> out, ret |-> out]

Forward ==
    \E Xin \in feed :
        /\ X' = ForwardCall(Xin, pool, stride).X
        /\ Y' = ForwardCall(Xin, pool, stride).Y
        /\ ret' = ForwardCall(Xin, pool, stride).ret
        /\ op' = "forward"
        /\ arg' = Xin
        /\ par' = None
        /\ UNCHANGED <<pool, stride, feed>>

\* The array arguments a reader is called with: shaped like forward's output when
\* there is a cached input.
Upstreams ==
    IF ~IsArray(X) THEN {ConstArray(<<1, 1, 1, 1>>, 1)}
    ELSE Upstream(OutShape(X.shape, pool, stride))

\* backward(DY): N,H,W,D = self.X.shape raises AttributeError when self.X is None
\* or unset.
BackwardRet(Xc, pl, st, DY) ==
    IF ~IsArray(Xc) THEN AttributeError ELSE BackwardDX(Xc, pl, st, DY)

Backward ==
    \E DY \in Upstreams :
        /\ ret' = BackwardRet(X, pool, stride, DY)
        /\ op' = "backward"
        /\ arg' = DY
        /\ par' = None
        /\ UNCHANGED <<pool, stride, feed, X, Y>>

\* A variant of CleanCache that releases the input alone.
CleanLeak == [X |-> None, Y |-> Y]

\* def clean(self): self.X = None; self.Y = None
CleanCache == [X |-> None, Y |-> None]

Clean ==
    /\ X' = CleanCache.X
    /\ Y' = CleanCache.Y
    /\ ret' = None
    /\ op' = "clean"
    /\ arg' = None
    /\ par' = None
    /\ UNCHANGED <<pool, stride, feed>>

\* A variant of LrpRet that answers a missing input with an array of zeros.
LrpRetZeros(kind, Xc, pl, st, R, p) ==
    IF ~IsArray(Xc) THEN ConstArray(R.shape, <<>>) ELSE LrpRx(kind, Xc, pl, st, R, p)

\* A strategy's return value: N,H,W,D = self.X.shape raises AttributeError when
\* self.X is None or unset.
LrpRet(kind, Xc, pl, st, R, p) ==
    IF ~IsArray(Xc) THEN AttributeError ELSE LrpRx(kind, Xc, pl, st, R, p)

\* _ww_lrp: return self._flat_lrp(R)
WwRet(Xc, pl, st, R) == LrpRet("flat", Xc, pl, st, R, None)

Reader(name, R, p, value) ==
    /\ ret' = value
    /\ op' = name
    /\ arg' = R
    /\ par' = p
    /\ UNCHANGED <<pool, stride, feed, X, Y>>

SimpleLrp ==
    \E R \in Upstreams : Reader("simple", R, None, LrpRet("simple", X, pool, stride, R, None))

FlatLrp ==
    \E R \in Upstreams : Reader("flat", R, None, LrpRet("flat", X, pool, stride, R, None))

WwLrp ==
    \E R \in Upstreams : Reader("ww", R, None, WwRet(X, pool, stride, R))

EpsilonLrp ==
    \E R \in Upstreams : \E epsilon \in Epsilons :
        Reader("epsilon", R, epsilon, LrpRet("epsilon", X, pool, stride, R, epsilon))

AlphaBetaLrp ==
    \E R \in Upstreams : \E alpha \in Alphas :
        Reader("alphabeta", R, alpha, LrpRet("alphabeta", X, pool, stride, R, alpha))

Next ==
    \/ Forward
    \/ Backward
    \/ Clean
    \/ SimpleLrp
    \/ FlatLrp
    \/ WwLrp
    \/ EpsilonLrp
    \/ AlphaBetaLrp

Spec == Init /\ [][Next]_vars

SpecFew == InitFew /\ [][Next]_vars

\* ------------------------------------------------------------- properties
Readers == {"backward", "simple", "flat", "ww", "epsilon", "alphabeta"}

\* Whether (H - hpool) and (W - wpool) are multiples of the strides.
Exact(s, pl, st) == (s[2] - pl[1]) % st[1] = 0 /\ (s[3] - pl[2]) % st[2] = 0

RECURSIVE SumOver(_, _)
\* The sum of the integers f[x], x in the finite set S.
SumOver(S, f) ==
    IF S = {} THEN 0
    ELSE LET x == CHOOSE y \in S : TRUE IN f[x] + SumOver(S \ {x}, f)

RECURSIVE SSumOver(_, _)
\* The sum of the scaled numbers f[x], x in the finite set S.
SSumOver(S, f) ==
    IF S = {} THEN SZero
    ELSE LET x == CHOOSE y \in S : TRUE IN SAdd(f[x], SSumOver(S \ {x}, f))

\* The offsets (a,b) of the cells of a pooling window.
Offsets(pl) == (0..(pl[1]-1)) \X (0..(pl[2]-1))

\* sum of A[n, i*sh .. i*sh+ph-1, j*sw .. j*sw+pw-1, d]
PoolSum(A, pl, st, o) ==
    SumOver(Offsets(pl),
            [ab \in Offsets(pl) |->
                A.data[<<o[1], o[2] * st[1] + ab[1], o[3] * st[2] + ab[2], o[4]>>]])

\* (C1) For an input whose (H-ph), (W-pw) are multiples of the strides, forward
\* returns Y with Y[n,i,j,d] = (the sum of X over the window's rows and columns, of
\* batch n and channel d alone) / sqrt(ph*pw), at every output position; all ones
\* of shape (1,4,4,1) with pool = stride = (2,2) gives 2.0 everywhere.
C1_ForwardSums ==
    (op = "forward" /\ Exact(arg.shape, pool, stride)) =>
        /\ IsArray(ret)
        /\ ret.shape = <<arg.shape[1],
                         (arg.shape[2] - pool[1]) \div stride[1] + 1,
                         (arg.shape[3] - pool[2]) \div stride[2] + 1,
                         arg.shape[4]>>
        /\ DOMAIN ret.data = Idx(ret.shape)
        /\ \A o \in Idx(ret.shape) :
              SEq(ret.data[o],
                  [num |-> PoolSum(arg, pool, stride, o), rad |-> pool[1] * pool[2]])
        /\ (/\ arg = ConstArray(<<1, 4, 4, 1>>, 1)
            /\ pool = <<2, 2>> /\ stride = <<2, 2>>)
           => /\ ret.shape = <<1, 2, 2, 1>>
              /\ \A o \in Idx(ret.shape) : SEq(ret.data[o], [num |-> 2, rad |-> 1])

\* forward has pooled the (1,4,4,1) array of ones with pool = stride = (2,2).
C1_Witness ==
    /\ op = "forward"
    /\ arg = ConstArray(<<1, 4, 4, 1>>, 1)
    /\ pool = <<2, 2>> /\ stride = <<2, 2>>
    /\ ret.data[<<0, 1, 1, 0>>] = [num |-> 4, rad |-> 4]

\* (C2) Whenever self.Y is present, self.X is too and Y has the shape
\* (N, (H-ph)/sh + 1, (W-pw)/sw + 1, D) of X's (N,H,W,D): the quotients are the
\* integer ones, and the exact ones when the divisions are exact; after forward
\* this is the shape of the value it returned.
C2_OutputShape ==
    IsArray(Y) =>
        /\ IsArray(X)
        /\ Y.shape[1] = X.shape[1] /\ Y.shape[4] = X.shape[4]
        /\ Y.shape[2] = (X.shape[2] - pool[1]) \div stride[1] + 1
        /\ Y.shape[3] = (X.shape[3] - pool[2]) \div stride[2] + 1
        /\ Exact(X.shape, pool, stride) =>
              /\ (Y.shape[2] - 1) * stride[1] = X.shape[2] - pool[1]
              /\ (Y.shape[3] - 1) * stride[2] = X.shape[3] - pool[2]
        /\ DOMAIN Y.data = Idx(Y.shape)
        /\ op = "forward" => (IsArray(ret) /\ ret.shape = Y.shape)

\* A cached output of more than one row and column, from exact divisions, with a
\* reader called since.
C2_Witness ==
    /\ IsArray(Y) /\ op = "flat"
    /\ Exact(X.shape, pool, stride)
    /\ Y.shape[2] > 1 /\ Y.shape[3] > 1 /\ stride # <<1, 1>>

\* v * c for a scaled number v and an integer c.
STimes(v, c) == [num |-> v.num * c, rad |-> v.rad]

\* (C3) backward is the adjoint of forward: called with DY after forward(X),
\* sum(forward(X) * DY) = sum(X * backward(DY)), overlapping windows included.
C3_Adjoint ==
    (op = "backward" /\ IsArray(X)) =>
        /\ IsArray(ret) /\ ret.shape = X.shape
        /\ SEq(SSumOver(Idx(Y.shape), [o \in Idx(Y.shape) |-> STimes(Y.data[o], arg.data[o])]),
               SSumOver(Idx(X.shape), [ix \in Idx(X.shape) |-> STimes(ret.data[ix], X.data[ix])]))

\* backward after a forward whose windows overlap, the two sums not 0.
C3_Witness ==
    /\ op = "backward" /\ IsArray(X)
    /\ stride[2] < pool[2] /\ Y.shape[3] > 1
    /\ SSumOver(Idx(X.shape), [ix \in Idx(X.shape) |-> STimes(ret.data[ix], X.data[ix])]).num # 0

\* (C4) After clean(), backward and every LRP strategy called before the next
\* forward raise the missing-state error (AttributeError), return no array, and
\* leave the cache absent.
C4_MissingState ==
    [][(X = None /\ op' \in Readers) =>
          (ret' = AttributeError /\ ~IsArray(ret') /\ X' = None /\ Y' = None)]_vars

\* A strategy has been called on the cleaned cache.
C4_Witness == op = "alphabeta" /\ X = None /\ Y = None /\ ret = AttributeError

\* (C9) forward caches its argument and its result; clean makes both absent;
\* backward and the LRP strategies leave both unchanged, and what they return on a
\* cached input is an array of the input's shape.
C9_Lifecycle ==
    [][/\ op' = "forward" => (IsArray(X') /\ X' = arg' /\ Y' = ret')
       /\ op' = "clean" => (X' = None /\ Y' = None)
       /\ op' \in Readers => /\ X' = X /\ Y' = Y
                             /\ IsArray(X) => (IsArray(ret') /\ ret'.shape = X.shape)]_vars

\* A reader has run on the array cached by forward, an array other than the feed's
\* all-ones one.
C9_Witness ==
    /\ op \in Readers /\ IsArray(X) /\ IsArray(ret)
    /\ Cardinality(feed) > 1
    /\ X # ConstArray(<<1, pool[1], pool[2], 1>>, 1)

\* The first row (column) past the last window.
PastRows(s, pl, st) == ((s[2] - pl[1]) \div st[1]) * st[1] + pl[1]
PastCols(s, pl, st) == ((s[3] - pl[2]) \div st[2]) * st[2] + pl[2]

\* The cells of the rows and columns that no window reaches.
Trailing(s, pl, st) ==
    {ix \in Idx(s) : ix[2] >= PastRows(s, pl, st) \/ ix[3] >= PastCols(s, pl, st)}

\* A with its trailing cells set to 0.
Trimmed(A, pl, st) ==
    [shape |-> A.shape,
     data  |-> [ix \in Idx(A.shape) |->
                  IF ix \in Trailing(A.shape, pl, st) THEN 0 ELSE A.data[ix]]]

\* (C10) When (H-ph) or (W-pw) is no multiple of the stride, forward raises nothing
\* and returns an array of floor((H-ph)/sh)+1 rows and floor((W-pw)/sw)+1 columns to
\* which the rows and columns past the last window contribute nothing, and backward
\* and the LRP strategies leave the cells of those rows and columns at zero.
C10_Truncation ==
    /\ (op = "forward" /\ ~Exact(arg.shape, pool, stride)) =>
          /\ IsArray(ret)
          /\ ret.shape[2] = (arg.shape[2] - pool[1]) \div stride[1] + 1
          /\ ret.shape[3] = (arg.shape[3] - pool[2]) \div stride[2] + 1
          /\ \A o \in Idx(ret.shape) :
                SEq(ret.data[o],
                    [num |-> PoolSum(Trimmed(arg, pool, stride), pool, stride, o),
                     rad |-> pool[1] * pool[2]])
    /\ (op \in Readers /\ IsArray(X) /\ ~Exact(X.shape, pool, stride)) =>
          /\ IsArray(ret)
          /\ \A ix \in Trailing(X.shape, pool, stride) :
                IF op = "backward" THEN ret.data[ix].num = 0 ELSE ret.data[ix] = <<>>

\* backward has run on an input with a row or column past the last window, and
\* has given some other cell a gradient.
C10_Witness ==
    /\ op = "backward" /\ IsArray(X) /\ ~Exact(X.shape, pool, stride)
    /\ Trailing(X.shape, pool, stride) # {}
    /\ \E ix \in Idx(X.shape) : ret.data[ix].num # 0

RECURSIVE Gcd(_, _)
\* The greatest common divisor of a >= 0 and b >= 0.
Gcd(a, b) == IF b = 0 THEN a ELSE Gcd(b, a % b)

Abs(a) == IF a < 0 THEN -a ELSE a

\* The fraction p/q (q # 0) in lowest terms with a positive denominator.
Frac(p, q) ==
    LET g == Gcd(Abs(p), Abs(q))
    IN  [p |-> (IF q < 0 THEN -p ELSE p) \div g, q |-> Abs(q) \div g]

FAdd(u, v) == Frac(u.p * v.q + v.p * u.q, u.q * v.q)

RECURSIVE FSumOver(_, _)
\* The sum of the fractions f[x], x in the finite set S.
FSumOver(S, f) ==
    IF S = {} THEN Frac(0, 1)
    ELSE LET x == CHOOSE y \in S : TRUE IN FAdd(f[x], FSumOver(S \ {x}, f))

\* A cell of an LRP result is a sequence of terms num / (den + sgn * stab), stab a
\* tiny positive number. Its value as stab tends to 0 is the pole coefficient times
\* 1/stab plus the limit: the pole coefficient is the sum of sgn * num over the
\* terms of den = 0, the limit the sum of num / den over the others.
PoleOf(ts) ==
    SumOver(DOMAIN ts,
            [k \in DOMAIN ts |-> IF ts[k].den = 0 THEN ts[k].sgn * ts[k].num ELSE 0])

LimitOf(ts) ==
    FSumOver(DOMAIN ts,
             [k \in DOMAIN ts |-> IF ts[k].den = 0 THEN Frac(0, 1)
                                  ELSE Frac(ts[k].num, ts[k].den)])

\* The stabilized denominators of a cell's terms: (|den|, stab); a term
\* num / (den + sgn * stab) whose sgn is den's sign is sgn * num / (|den| + stab).
KeysOf(ts) == {<<Abs(ts[k].den), ts[k].stab>> : k \in DOMAIN ts}

\* The numerator a cell's terms have in total over one stabilized denominator.
CoefOf(ts, key) ==
    SumOver(DOMAIN ts,
            [k \in DOMAIN ts |->
                IF <<Abs(ts[k].den), ts[k].stab>> = key
                THEN (IF ts[k].sgn = 0 THEN (IF ts[k].den < 0 THEN -1 ELSE 1) ELSE ts[k].sgn)
                     * ts[k].num
                ELSE 0])

\* Two sequences of terms denote the same number for every value of the
\* stabilizers.
TermsEq(us, vs) ==
    \A key \in KeysOf(us) \cup KeysOf(vs) : CoefOf(us, key) = CoefOf(vs, key)

\* The cells of batch n and channel d.
SliceOf(s, nd) == {ix \in Idx(s) : ix[1] = nd[1] /\ ix[4] = nd[2]}

\* The batches and channels of shape s.
Slices(s) == (0..(s[1]-1)) \X (0..(s[4]-1))

\* The output position whose window holds cell ix when stride = pool.
WindowAt(ix, pl) == <<ix[1], ix[2] \div pl[1], ix[3] \div pl[2], ix[4]>>

\* The cells of the window of output position o.
CellsOf(o, pl, st) ==
    {<<o[1], o[2] * st[1] + ab[1], o[3] * st[2] + ab[2], o[4]>> : ab \in Offsets(pl)}

\* The output positions whose windows hold cell ix.
WindowsAt(ix, os, pl, st) == {o \in Idx(os) : ix \in CellsOf(o, pl, st)}

\* (C5) With stride = pool and (H-ph), (W-pw) multiples of the stride, flat_lrp
\* gives every cell of a window R[n,i,j,d] / (ph*pw), so that for each batch and
\* channel the result sums to what R sums to; R all ones of shape (1,2,2,1) on an
\* input of shape (1,4,4,1) with pool = stride = (2,2) gives 1/4 at every cell.
C5_FlatConservation ==
    (op = "flat" /\ IsArray(X) /\ stride = pool /\ Exact(X.shape, pool, stride)) =>
        /\ IsArray(ret) /\ ret.shape = X.shape
        /\ \A ix \in Idx(X.shape) :
              /\ PoleOf(ret.data[ix]) = 0
              /\ LimitOf(ret.data[ix])
                    = Frac(arg.data[WindowAt(ix, pool)], pool[1] * pool[2])
              /\ \A k \in DOMAIN ret.data[ix] : ret.data[ix][k].stab = "none"
        /\ \A nd \in Slices(X.shape) :
              FSumOver(SliceOf(X.shape, nd),
                       [ix \in SliceOf(X.shape, nd) |-> LimitOf(ret.data[ix])])
                 = Frac(SumOver(SliceOf(arg.shape, nd),
                                [o \in SliceOf(arg.shape, nd) |-> arg.data[o]]), 1)
        /\ (X.shape = <<1, 4, 4, 1>> /\ pool = <<2, 2>> /\ arg = ConstArray(<<1, 2, 2, 1>>, 1)) =>
              \A ix \in Idx(X.shape) : LimitOf(ret.data[ix]) = [p |-> 1, q |-> 4]

\* flat_lrp has run in the scenario: input of shape (1,4,4,1), pool = stride =
\* (2,2), R all ones.
C5_Witness ==
    /\ op = "flat" /\ IsArray(X) /\ stride = pool
    /\ X.shape = <<1, 4, 4, 1>> /\ pool = <<2, 2>>
    /\ arg = ConstArray(<<1, 2, 2, 1>>, 1)

\* The terms simple_lrp has given the cells of batch n and channel d: pole
\* coefficient and limit of their sum.
SlicePole(A, nd) ==
    SumOver(SliceOf(A.shape, nd), [ix \in SliceOf(A.shape, nd) |-> PoleOf(A.data[ix])])

SliceLimit(A, nd) ==
    FSumOver(SliceOf(A.shape, nd), [ix \in SliceOf(A.shape, nd) |-> LimitOf(A.data[ix])])

\* (C6, as stated) With stride = pool and exact divisions, simple_lrp's result
\* sums, for each batch and channel, to what R sums to, up to the stabilizer, also
\* when a window of X sums to zero.
C6_Original ==
    (op = "simple" /\ IsArray(X) /\ stride = pool /\ Exact(X.shape, pool, stride)) =>
        \A nd \in Slices(X.shape) :
            /\ SlicePole(ret, nd) = 0
            /\ SliceLimit(ret, nd)
                  = Frac(SumOver(SliceOf(arg.shape, nd),
                                 [o \in SliceOf(arg.shape, nd) |-> arg.data[o]]), 1)

\* (C6) With stride = pool and exact divisions, simple_lrp gives the cells of the
\* window of output position o the terms X[cell] * R[o] / (Zs + 1e-12 * sign(Zs)),
\* Zs the window's sum and sign(0) = 1, which total R[o] * Zs / (Zs + 1e-12 *
\* sign(Zs)): a window whose sum is not zero passes on R[o] up to the stabilizer,
\* a window whose sum is zero passes on nothing, so that each batch and channel of
\* the result sums, up to the stabilizer, to R summed over the windows whose sum
\* is not zero.
C6_SimpleConservation ==
    (op = "simple" /\ IsArray(X) /\ stride = pool /\ Exact(X.shape, pool, stride)) =>
        /\ IsArray(ret) /\ ret.shape = X.shape
        /\ \A o \in Idx(arg.shape) :
              LET Zs == PoolSum(X, pool, stride, o)
                  W  == CellsOf(o, pool, stride)
              IN  /\ \A ix \in W :
                        /\ Len(ret.data[ix]) = 1
                        /\ ret.data[ix][1].num = X.data[ix] * arg.data[o]
                        /\ ret.data[ix][1].den = Zs
                        /\ ret.data[ix][1].sgn = (IF Zs >= 0 THEN 1 ELSE -1)
                        /\ ret.data[ix][1].stab = "1e-12"
                  /\ SumOver(W, [ix \in W |-> ret.data[ix][1].num]) = Zs * arg.data[o]
        /\ \A nd \in Slices(X.shape) :
              /\ SlicePole(ret, nd) = 0
              /\ SliceLimit(ret, nd)
                    = Frac(SumOver(SliceOf(arg.shape, nd),
                                   [o \in SliceOf(arg.shape, nd) |->
                                       IF PoolSum(X, pool, stride, o) = 0 THEN 0
                                       ELSE arg.data[o]]), 1)

\* simple_lrp has run on an input of which one window sums to zero, with cells
\* that are not all zero, and another to less than zero.
C6_Witness ==
    /\ op = "simple" /\ IsArray(X) /\ IsArray(ret)
    /\ stride = pool /\ Exact(X.shape, pool, stride)
    /\ \E o \in Idx(arg.shape) :
          /\ PoolSum(X, pool, stride, o) = 0
          /\ \E ix \in CellsOf(o, pool, stride) : X.data[ix] # 0
    /\ \E o \in Idx(arg.shape) : PoolSum(X, pool, stride, o) < 0

\* sum of the positive (negative) cells of the window of output position o.
PosSum(A, pl, st, o) ==
    SumOver(CellsOf(o, pl, st), [ix \in CellsOf(o, pl, st) |-> Pos(A.data[ix])])

NegSum(A, pl, st, o) ==
    SumOver(CellsOf(o, pl, st), [ix \in CellsOf(o, pl, st) |-> Neg(A.data[ix])])

RECURSIVE Weighted(_, _, _, _, _, _, _, _)
\* a * Zp[ix] * R[o] / (sum(Zp) + 1e-16) and b * Zn[ix] * R[o] / (sum(Zn) - 1e-16),
\* one pair of terms for each window o of ws.
Weighted(ws, ix, A, pl, st, R, a, b) ==
    IF ws = {} THEN <<>>
    ELSE LET o == CHOOSE w \in ws : TRUE
         IN  <<Term(a * Pos(A.data[ix]) * R.data[o], PosSum(A, pl, st, o), 1, "1e-16"),
               Term(b * Neg(A.data[ix]) * R.data[o], NegSum(A, pl, st, o), -1, "1e-16")>>
             \o Weighted(ws \ {o}, ix, A, pl, st, R, a, b)

\* (C7, as stated) alphabeta_lrp(R, alpha) adds to each window
\* alpha * (Zp / sum(Zp)) * R + beta * (Zn / sum(Zn)) * R with beta = 1 - alpha.
C7_Weighted ==
    (op = "alphabeta" /\ IsArray(X)) =>
        /\ IsArray(ret)
        /\ \A ix \in Idx(X.shape) :
              TermsEq(ret.data[ix],
                      Weighted(WindowsAt(ix, arg.shape, pool, stride), ix, X, pool, stride,
                               arg, par, 1 - par))

\* (C8) With alpha = 1 alphabeta_lrp's result is the positive term alone,
\* Zp * R / (sum(Zp) + 1e-16) of each window a cell is in, with no negative term
\* computed; with alpha = 0 it is the negative term alone, Zn * R / (sum(Zn) -
\* 1e-16), with no positive term computed.
C8_OneSided ==
    (op = "alphabeta" /\ IsArray(X) /\ par \in {0, 1}) =>
        /\ IsArray(ret)
        /\ \A ix \in Idx(X.shape) :
              LET ws == WindowsAt(ix, arg.shape, pool, stride)
              IN  /\ Len(ret.data[ix]) = Cardinality(ws)
                  /\ \A k \in DOMAIN ret.data[ix] :
                        ret.data[ix][k].sgn = (IF par = 1 THEN 1 ELSE -1)
                  /\ TermsEq(ret.data[ix],
                             Weighted(ws, ix, X, pool, stride, arg, par, 1 - par))

\* alphabeta_lrp has run with alpha = 1 on an input with cells of both signs, and
\* has given some cell relevance.
C8_Witness ==
    /\ op = "alphabeta" /\ IsArray(X) /\ IsArray(ret) /\ par = 1
    /\ \E ix \in Idx(X.shape) : X.data[ix] > 0
    /\ \E ix \in Idx(X.shape) : X.data[ix] < 0
    /\ \E ix \in Idx(X.shape) : \E k \in DOMAIN ret.data[ix] : ret.data[ix][k].num # 0

=============================================================================
